---------------------------- MODULE Spec2Model ----------------------------
(***************************************************************************)
(* The telemetry endpoint src/pages/api/stats.json.ts: the GET handler,   *)
(* its probes (memory, CPU count and model, CPU load, temperature,        *)
(* battery, uptime) and its formatters, in the two variants the file      *)
(* holds (variant 1: lines 1-189, variant 2: lines 191-313).              *)
(*                                                                         *)
(* The environment of one request (OS counters, pseudo-files, the battery *)
(* helper's outcome) is fixed in the initial state; the handler then runs *)
(* its statements in order, one action per statement group.               *)
(***************************************************************************)
EXTENDS Integers, Sequences, FiniteSets, TLC

VARIABLES
    variant,    \* 1: lines 1-189, 2: lines 191-313
    os,         \* what the os / process modules report
    fs,         \* pseudo-files: path -> [ok, text]
    cpuinfo,    \* /proc/cpuinfo: [ok, lines]
    helper,     \* outcome of execSync('termux-battery-status') + JSON.parse
    pc,         \* the handler's position
    loc,        \* the handler's local variables
    reads,      \* the pseudo-file paths read so far, in order
    response    \* the Response returned, once pc = "done"

vars == <<variant, os, fs, cpuinfo, helper, pc, loc, reads, response>>

---------------------------------------------------------------------------
(* JavaScript values.  A number is the rational n/d (d > 0); NaN is kept   *)
(* apart from the finite numbers.                                          *)

JSVal(t, n, d, s) == [t |-> t, n |-> n, d |-> d, s |-> s, o |-> <<>>]
Undefined == JSVal("undefined", 0, 1, "")
Null == JSVal("null", 0, 1, "")
NaN == JSVal("NaN", 0, 1, "")
Num(n) == JSVal("number", n, 1, "")
Ratio(n, d) == JSVal("number", n, d, "")
Str(s) == JSVal("string", 0, 1, s)
Bool(b) == JSVal("boolean", IF b THEN 1 ELSE 0, 1, "")
\* an object: f maps its own property names to values; an array: f is a sequence
Obj(f) == [t |-> "object", n |-> 0, d |-> 1, s |-> "", o |-> f]
Arr(f) == [t |-> "array", n |-> 0, d |-> 1, s |-> "", o |-> f]

IsInteger(v) == v.t = "number" /\ v.n % v.d = 0
IsFinite(v) == v.t = "number"
IsBoolean(v) == v.t = "boolean"
IsString(v) == v.t = "string"

---------------------------------------------------------------------------
(* Text read from a pseudo-file is a sequence of one-character strings.    *)

Whitespace == {" ", "\n", "\t", "\r"}
Digits == <<"0", "1", "2", "3", "4", "5", "6", "7", "8", "9">>
UpperCase == <<"A", "B", "C", "D", "E", "F", "G", "H", "I", "J", "K", "L", "M",
               "N", "O", "P", "Q", "R", "S", "T", "U", "V", "W", "X", "Y", "Z">>
LowerCase == <<"a", "b", "c", "d", "e", "f", "g", "h", "i", "j", "k", "l", "m",
               "n", "o", "p", "q", "r", "s", "t", "u", "v", "w", "x", "y", "z">>

RECURSIVE trimStart(_)
trimStart(cs) ==
    IF cs # <<>> /\ Head(cs) \in Whitespace THEN trimStart(Tail(cs)) ELSE cs

RECURSIVE trimEnd(_)
trimEnd(cs) ==
    IF cs # <<>> /\ cs[Len(cs)] \in Whitespace
    THEN trimEnd(SubSeq(cs, 1, Len(cs) - 1))
    ELSE cs

\* String.prototype.trim
trim(cs) == trimEnd(trimStart(cs))

lowerChar(c) ==
    IF \E i \in 1..26 : UpperCase[i] = c
    THEN LowerCase[CHOOSE i \in 1..26 : UpperCase[i] = c]
    ELSE c

\* String.prototype.toLowerCase
toLowerCase(cs) == [i \in 1..Len(cs) |-> lowerChar(cs[i])]

IsDigit(c) == \E i \in 1..10 : Digits[i] = c
DigitValue(c) == (CHOOSE i \in 1..10 : Digits[i] = c) - 1

RECURSIVE digitsPrefix(_, _, _)
\* the value of the leading decimal digits of cs, and how many there are
digitsPrefix(cs, acc, count) ==
    IF cs # <<>> /\ IsDigit(Head(cs))
    THEN digitsPrefix(Tail(cs), acc * 10 + DigitValue(Head(cs)), count + 1)
    ELSE [value |-> acc, count |-> count]

\* parseInt(string) with no radix, on text that does not start with 0x:
\* leading whitespace skipped, an optional sign, then the longest prefix of
\* decimal digits; NaN when there is no digit.
parseInt(cs) ==
    LET s == trimStart(cs)
        signed == s # <<>> /\ Head(s) \in {"+", "-"}
        body == IF signed THEN Tail(s) ELSE s
        p == digitsPrefix(body, 0, 0)
    IN  IF p.count = 0 THEN NaN
        ELSE IF signed /\ Head(s) = "-" THEN Num(0 - p.value)
        ELSE Num(p.value)

---------------------------------------------------------------------------
(* Double-precision arithmetic.  usedMem / totalMem and loadAvg[0] /       *)
(* cpuCount are IEEE-754 binary64 divisions and the product with 100 is a  *)
(* binary64 multiplication: each rounds its exact result to 53 significant *)
(* bits, ties to even.  A significand is kept as three limbs               *)
(* <<hi, mid, lo>> = hi * 2^40 + mid * 2^20 + lo.                          *)

Limb == 2^20

RECURSIVE scaleUp(_, _, _)
scaleUp(a, b, e) == IF a < b - a THEN scaleUp(2 * a, b, e - 1) ELSE <<a, b, e>>

RECURSIVE scaleDown(_, _, _)
scaleDown(a, b, e) == IF a - b >= b THEN scaleDown(a, 2 * b, e + 1) ELSE <<a, b, e>>

\* u / t = (a / b) * 2^e with 1/2 <= a / b < 2 (the doublings stop short of
\* b so that byte counts up to 2^31 stay within 32 bits)
normalize(u, t) ==
    LET up == scaleUp(u, t, 0) IN scaleDown(up[1], up[2], up[3])

RECURSIVE divBits(_, _, _, _)
\* n more quotient bits of r / b (r < b), appended to acc
divBits(r, b, n, acc) ==
    IF n = 0 THEN <<acc, r>>
    ELSE IF r >= b - r THEN divBits(r - (b - r), b, n - 1, 2 * acc + 1)
    ELSE divBits(2 * r, b, n - 1, 2 * acc)

incLimbs(m) ==
    LET lo == m[3] + 1
        mid == m[2] + (IF lo = Limb THEN 1 ELSE 0)
        hi == m[1] + (IF mid = Limb THEN 1 ELSE 0)
    IN  <<hi, mid % Limb, lo % Limb>>

\* the double nearest u / t (0 < u, 0 < t): <<significand, e>>, meaning
\* significand * 2^(e - 52) with 2^52 <= significand < 2^53
doubleDiv(u, t) ==
    LET nm == normalize(u, t)
        b == nm[2]
        below == nm[1] < b     \* a / b < 1: the leading bit is that of 2a / b
        e == IF below THEN nm[3] - 1 ELSE nm[3]
        h == divBits(IF below THEN nm[1] - (b - nm[1]) ELSE nm[1] - b, b, 12, 1)
        m == divBits(h[2], b, 20, 0)
        l == divBits(m[2], b, 20, 0)
        r == l[2]
        roundUp == r > b - r \/ (r = b - r /\ l[1] % 2 = 1)
        sig == IF roundUp THEN incLimbs(<<h[1], m[1], l[1]>>) ELSE <<h[1], m[1], l[1]>>
    IN  IF sig[1] = 2^13 THEN <<(<<2^12, 0, 0>>), e + 1>> ELSE <<sig, e>>

\* the exact product significand * 100, as limbs (the top limb holds 19 or
\* 20 bits)
times100(sig) ==
    LET x0 == sig[3] * 100
        x1 == sig[2] * 100 + x0 \div Limb
    IN  <<sig[1] * 100 + x1 \div Limb, x1 % Limb, x0 % Limb>>

\* the product rounded back to 53 significant bits, ties to even: its low
\* 6 or 7 bits are cleared
roundTo53(n) ==
    LET drop == IF n[1] >= 2^19 THEN 2^7 ELSE 2^6
        rem == n[3] % drop
        roundUp == 2 * rem > drop \/ (2 * rem = drop /\ (n[3] \div drop) % 2 = 1)
        lo == n[3] - rem + (IF roundUp THEN drop ELSE 0)
        mid == n[2] + (IF lo = Limb THEN 1 ELSE 0)
    IN  <<n[1] + (IF mid = Limb THEN 1 ELSE 0), mid % Limb, lo % Limb>>

\* Math.round((u / t) * 100) for 0 <= u, 0 < t, u / t < 2^11.  Math.round(x)
\* is floor(x + 1/2), computed exactly on the double x.
roundPercent(u, t) ==
    IF u = 0 THEN 0
    ELSE LET q == doubleDiv(u, t)
             p == roundTo53(times100(q[1]))
             s == 52 - q[2]
         IN  IF s >= 62 THEN 0    \* the product is below 1/2
             ELSE (p[1] + 2^(s - 41)) \div 2^(s - 40)

---------------------------------------------------------------------------
(* Formatters.                                                             *)

TwoDigits(n) == IF n < 10 THEN "0" \o ToString(n) ELSE ToString(n)

GiB == 2^30
MiB == 2^20

\* (bytes / 2^30).toFixed(2): the division by a power of two is exact, and
\* toFixed picks the nearest hundredth, the larger one on a tie.  The
\* hundredths are floor((100 * bytes + 2^29) / 2^30), computed in two halves
\* of the remainder to stay within 32 bits.
gbToFixed2(bytes) ==
    LET rem == bytes % GiB
        rh == rem \div 2^15
        rl == rem % 2^15
        frac == ((100 * rh + 2^14) + (100 * rl) \div 2^15) \div 2^15
        hundredths == 100 * (bytes \div GiB) + frac
    IN  ToString(hundredths \div 100) \o "." \o TwoDigits(hundredths % 100)

\* (bytes / 2^20).toFixed(0)
mbToFixed0(bytes) == ToString((bytes + 2^19) \div MiB)

\* the gibibyte form only above one gibibyte, not at it
formatBytesAboveOneGiB(bytes) ==
    IF bytes > GiB THEN gbToFixed2(bytes) \o " GB"
    ELSE mbToFixed0(bytes) \o " MB"

formatBytes(bytes) ==
    IF bytes >= GiB THEN gbToFixed2(bytes) \o " GB"
    ELSE mbToFixed0(bytes) \o " MB"

RECURSIVE join(_, _)
\* Array.prototype.join
join(parts, sep) ==
    IF parts = <<>> THEN ""
    ELSE IF Len(parts) = 1 THEN parts[1]
    ELSE parts[1] \o sep \o join(Tail(parts), sep)

\* the hours taken from the whole duration, not from what the days leave
formatUptimeHoursOfTotal(ms) ==
    LET days == ms \div 86400000
        hours == ms \div 3600000
        minutes == (ms % 3600000) \div 60000
        parts0 == IF days > 0 THEN <<ToString(days) \o "d">> ELSE <<>>
        parts1 == IF hours > 0 THEN Append(parts0, ToString(hours) \o "h") ELSE parts0
        parts2 == IF minutes > 0 THEN Append(parts1, ToString(minutes) \o "m") ELSE parts1
        joined == join(parts2, " ")
    IN  IF joined = "" THEN "< 1m" ELSE joined

\* formatUptime(seconds).  seconds is a double (process.uptime() has a
\* fractional part); it is given here in whole milliseconds.
formatUptime(ms) ==
    LET days == ms \div 86400000
        hours == (ms % 86400000) \div 3600000
        minutes == (ms % 3600000) \div 60000
        parts0 == IF days > 0 THEN <<ToString(days) \o "d">> ELSE <<>>
        parts1 == IF hours > 0 THEN Append(parts0, ToString(hours) \o "h") ELSE parts0
        parts2 == IF minutes > 0 THEN Append(parts1, ToString(minutes) \o "m") ELSE parts1
        joined == join(parts2, " ")
    IN  IF joined = "" THEN "< 1m" ELSE joined

\* l.toFixed(2) for a load average of quarters / 4 (a dyadic value, so the
\* double is exact and so are its two decimals)
loadToFixed2(quarters) ==
    ToString(quarters \div 4) \o "." \o TwoDigits(25 * (quarters % 4))

---------------------------------------------------------------------------
(* Exceptions.  A step that can throw yields threw = TRUE; a try block     *)
(* whose catch clause is empty, or only continues, swallows it.            *)

\* the block without its catch clause: the exception goes on to the caller
leavesTryUncaught(threw) == threw

\* try { ... } catch { }: whether an exception thrown in the block leaves
\* the statement
leavesTry(threw) == FALSE

\* fs.readFileSync(path, 'utf8'): throws when the path is absent or unreadable
readFileSync(files, path) ==
    [threw |-> ~files[path].ok, text |-> files[path].text]

---------------------------------------------------------------------------
(* CPU identity probe.  /proc/cpuinfo is [ok, lines], each line a          *)
(* [key, value] pair standing for the text "key<spaces>: value".           *)

\* cpuinfo.match(/^processor\s*:/gm): the matching lines (null when none)
processorLines(lines) == SelectSeq(lines, LAMBDA l : l.key = "processor")

DefaultCoreCount == 8

getCpuCoreCount(info, cpus) ==
    LET processors == IF info.ok THEN processorLines(info.lines) ELSE <<>>
        count == IF Len(processors) > 0 THEN Len(processors)
                 ELSE IF Len(cpus) > 0 THEN Len(cpus)
                 ELSE DefaultCoreCount
    IN  [value |-> count, threw |-> leavesTry(~info.ok), reads |-> <<"/proc/cpuinfo">>]

\* cpuinfo.match(/^key\s*:\s*(.+)$/m): the first line with that key and a
\* non-empty value
firstMatch(lines, key) == SelectSeq(lines, LAMBDA l : l.key = key /\ l.value # "")

getCpuModel(info, cpus) ==
    LET hardware == IF info.ok THEN firstMatch(info.lines, "Hardware") ELSE <<>>
        modelName == IF info.ok THEN firstMatch(info.lines, "model name") ELSE <<>>
        model == IF hardware # <<>> THEN hardware[1].value
                 ELSE IF modelName # <<>> THEN modelName[1].value
                 ELSE IF Len(cpus) > 0 /\ cpus[1].model # "" THEN cpus[1].model
                 ELSE "Google Tensor G2"
    IN  [value |-> model, threw |-> leavesTry(~info.ok), reads |-> <<"/proc/cpuinfo">>]

\* variant 2: cpus[0]?.model || 'Unknown'
cpuModelOrUnknown(cpus) ==
    IF Len(cpus) > 0 /\ cpus[1].model # "" THEN cpus[1].model ELSE "Unknown"

---------------------------------------------------------------------------
(* Temperature probe (the same in both variants).                          *)

thermalPaths ==
    <<"/sys/class/thermal/thermal_zone0/temp",
      "/sys/devices/virtual/thermal/thermal_zone0/temp">>

\* temp > 1000 ? temp / 1000 : temp   (NaN > 1000 is false)
scaleTemperature(temp) ==
    IF temp.t = "number" /\ temp.n > 1000 THEN Ratio(temp.n, 1000) ELSE temp

RECURSIVE temperatureLoop(_, _, _)
\* for (const path of thermalPaths) from index i, having read `done`
temperatureLoop(files, i, done) ==
    IF i > Len(thermalPaths) THEN [value |-> Null, threw |-> FALSE, reads |-> done]
    ELSE LET path == thermalPaths[i]
             r == readFileSync(files, path)
         IN  IF r.threw
             THEN IF leavesTry(TRUE)
                  THEN [value |-> Null, threw |-> TRUE, reads |-> Append(done, path)]
                  ELSE temperatureLoop(files, i + 1, Append(done, path))
             ELSE [value |-> scaleTemperature(parseInt(trim(r.text))),
                   threw |-> FALSE, reads |-> Append(done, path)]

getCpuTemperature(files) == temperatureLoop(files, 1, <<>>)

---------------------------------------------------------------------------
(* Battery probe.  The helper is [installed, durationMs, output,           *)
(* percentage, level, status]; output says what JSON.parse makes of what   *)
(* it printed:                                                             *)
(*   "malformed"  not JSON (JSON.parse throws)                             *)
(*   "null"       the JSON null (reading a property of it throws)          *)
(*   "scalar"     a JSON number, string, boolean or array: no such fields  *)
(*   "object"     a JSON object; an absent field reads as Undefined        *)

HelperTimeoutMs == 3000

\* execSync('termux-battery-status', {timeout: 3000, ...}) throws ENOENT for
\* a missing binary and ETIMEDOUT once the timeout has passed
execSyncThrows(h) == ~h.installed \/ h.durationMs > HelperTimeoutMs

\* whether the try block of lines 90-99 throws before its return statement
helperThrows(h) == execSyncThrows(h) \/ h.output \in {"malformed", "null"}

helperField(h, name) == IF h.output = "object" THEN h[name] ELSE Undefined

\* a ?? b
nullish(a, b) == IF a.t \in {"undefined", "null"} THEN b ELSE a

\* batteryData.status === 'CHARGING' || batteryData.status === 'FULL'
helperCharging(status) ==
    Bool(status.t = "string" /\ status.s \in {"CHARGING", "FULL"})

batteryPaths ==
    <<"/sys/class/power_supply/battery/capacity",
      "/sys/class/power_supply/BAT0/capacity">>

statusPaths ==
    <<"/sys/class/power_supply/battery/status",
      "/sys/class/power_supply/BAT0/status">>

\* status === 'charging' || status === 'full'
fileCharging(status) ==
    Bool(status = <<"c", "h", "a", "r", "g", "i", "n", "g">>
         \/ status = <<"f", "u", "l", "l">>)

RECURSIVE levelLoopDefaultZero(_, _, _, _)
\* the loop over a level that starts at 0 instead of null
levelLoopDefaultZero(files, paths, i, done) ==
    IF i > Len(paths) THEN [value |-> Num(0), threw |-> FALSE, reads |-> done]
    ELSE LET r == readFileSync(files, paths[i])
         IN  IF r.threw
             THEN levelLoopDefaultZero(files, paths, i + 1, Append(done, paths[i]))
             ELSE [value |-> parseInt(trim(r.text)), threw |-> FALSE,
                   reads |-> Append(done, paths[i])]

RECURSIVE levelLoop(_, _, _, _)
\* for (const path of batteryPaths) { try { level = parseInt(...); break } catch {} }
levelLoop(files, paths, i, done) ==
    IF i > Len(paths) THEN [value |-> Null, threw |-> FALSE, reads |-> done]
    ELSE LET r == readFileSync(files, paths[i])
         IN  IF r.threw
             THEN IF leavesTry(TRUE)
                  THEN [value |-> Null, threw |-> TRUE, reads |-> Append(done, paths[i])]
                  ELSE levelLoop(files, paths, i + 1, Append(done, paths[i]))
             ELSE [value |-> parseInt(trim(r.text)), threw |-> FALSE,
                   reads |-> Append(done, paths[i])]

RECURSIVE chargingLoop(_, _, _, _)
\* for (const path of statusPaths) { try { charging = ...; break } catch {} }
chargingLoop(files, paths, i, done) ==
    IF i > Len(paths) THEN [value |-> Null, threw |-> FALSE, reads |-> done]
    ELSE LET r == readFileSync(files, paths[i])
         IN  IF r.threw
             THEN IF leavesTry(TRUE)
                  THEN [value |-> Null, threw |-> TRUE, reads |-> Append(done, paths[i])]
                  ELSE chargingLoop(files, paths, i + 1, Append(done, paths[i]))
             ELSE [value |-> fileCharging(toLowerCase(trim(r.text))), threw |-> FALSE,
                   reads |-> Append(done, paths[i])]

\* Method 2 of variant 1, and all of variant 2 (with one path per field)
batteryFromFiles(files, levelPaths, chargingPaths) ==
    LET l == levelLoop(files, levelPaths, 1, <<>>)
    IN  IF l.threw
        THEN [level |-> Null, charging |-> Null, threw |-> TRUE, reads |-> l.reads,
              method |-> "files"]
        ELSE LET c == chargingLoop(files, chargingPaths, 1, l.reads)
             IN  [level |-> l.value, charging |-> c.value, threw |-> c.threw,
                  reads |-> c.reads, method |-> "files"]

\* Method 1: the try block of lines 90-99 ran to its return statement
batteryFromHelper(h) ==
    [level |-> nullish(helperField(h, "percentage"), helperField(h, "level")),
     charging |-> helperCharging(helperField(h, "status")),
     threw |-> FALSE, reads |-> <<>>, method |-> "helper"]

\* the probe giving up after the helper: no Method 2
getBatteryInfoNoFallback(h, files) ==
    IF ~helperThrows(h) THEN batteryFromHelper(h)
    ELSE [level |-> Null, charging |-> Null, threw |-> FALSE, reads |-> <<>>,
          method |-> "helper"]

\* variant 1, lines 85-131
getBatteryInfo(h, files) ==
    IF ~helperThrows(h) THEN batteryFromHelper(h)
    ELSE IF leavesTry(TRUE)
    THEN [level |-> Null, charging |-> Null, threw |-> TRUE, reads |-> <<>>,
          method |-> "helper"]
    ELSE batteryFromFiles(files, batteryPaths, statusPaths)

\* variant 2, lines 237-259: the outer catch returns {null, null}
getBatteryInfo2(files) ==
    LET r == batteryFromFiles(files, <<batteryPaths[1]>>, <<statusPaths[1]>>)
    IN  IF r.threw
        THEN [level |-> Null, charging |-> Null, threw |-> leavesTry(TRUE),
              reads |-> r.reads, method |-> "files"]
        ELSE r

---------------------------------------------------------------------------
(* JSON.stringify, as the value a client parses back: a property whose     *)
(* value is undefined is left out, an undefined array element and a NaN or *)
(* infinite number become null.                                            *)

RECURSIVE toJSON(_)
toJSON(v) ==
    IF v.t = "object"
    THEN Obj([k \in {x \in DOMAIN v.o : v.o[x].t # "undefined"} |-> toJSON(v.o[k])])
    ELSE IF v.t = "array"
    THEN Arr([i \in DOMAIN v.o |-> toJSON(v.o[i])])
    ELSE IF v.t \in {"NaN", "Infinity", "undefined"} THEN Null
    ELSE v

---------------------------------------------------------------------------
(* The handler.                                                            *)

NoResponse == [status |-> 0, headers |-> <<>>, body |-> Undefined]

InitLoc ==
    [totalMem |-> 0, freeMem |-> 0, usedMem |-> 0, memUsagePercent |-> Undefined,
     loadAvg |-> <<>>, uptime |-> 0, cpuCount |-> 0, cpuModel |-> "",
     cpuUsagePercent |-> Undefined, cpuTemp |-> Undefined,
     battery |-> [level |-> Undefined, charging |-> Undefined],
     stats |-> Undefined]

\* an exception leaves the async handler: the framework answers 500
Reject ==
    /\ pc' = "done"
    /\ response' = [status |-> 500, headers |-> <<>>, body |-> Undefined]

\* Math.round((usedMem / totalMem) * 100)
memUsage(usedMem, totalMem) ==
    IF totalMem = 0 THEN NaN ELSE Num(roundPercent(usedMem, totalMem))

\* lines 134-137, 262-265
ReadMemory ==
    /\ pc = "start"
    /\ loc' = [loc EXCEPT !.totalMem = os.totalmem,
                          !.freeMem = os.freemem,
                          !.usedMem = os.totalmem - os.freemem,
                          !.memUsagePercent = memUsage(os.totalmem - os.freemem, os.totalmem)]
    /\ pc' = "load"
    /\ UNCHANGED <<variant, os, fs, cpuinfo, helper, reads, response>>

\* lines 139-142 (process.uptime()), 267-269 (os.uptime())
ReadLoadAndUptime ==
    /\ pc = "load"
    /\ loc' = [loc EXCEPT !.loadAvg = os.loadavg,
                          !.uptime = IF variant = 1 THEN os.processUptime ELSE os.hostUptime]
    /\ pc' = "cpu"
    /\ UNCHANGED <<variant, os, fs, cpuinfo, helper, reads, response>>

\* lines 145-146 (getCpuCoreCount(), getCpuModel()), 272 and 292 (cpus.length,
\* cpus[0]?.model || 'Unknown')
CpuIdentity ==
    /\ pc = "cpu"
    /\ IF variant = 1
       THEN LET count == getCpuCoreCount(cpuinfo, os.cpus)
                model == getCpuModel(cpuinfo, os.cpus)
            IN  IF count.threw \/ model.threw
                THEN Reject /\ reads' = reads \o count.reads /\ UNCHANGED loc
                ELSE /\ loc' = [loc EXCEPT !.cpuCount = count.value,
                                           !.cpuModel = model.value]
                     /\ reads' = reads \o count.reads \o model.reads
                     /\ pc' = "usage"
                     /\ UNCHANGED response
       ELSE /\ loc' = [loc EXCEPT !.cpuCount = Len(os.cpus),
                                  !.cpuModel = cpuModelOrUnknown(os.cpus)]
            /\ pc' = "usage"
            /\ UNCHANGED <<reads, response>>
    /\ UNCHANGED <<variant, os, fs, cpuinfo, helper>>

\* Math.min(100, Math.round((loadAvg[0] / cpuCount) * 100)), the load
\* average given in quarters: x / 0 is Infinity for x > 0 and NaN for
\* x = 0, Math.round keeps both and Math.min(100, NaN) is NaN
cpuUsage(load, cpuCount) ==
    IF cpuCount = 0
    THEN IF load = 0 THEN NaN ELSE Num(100)
    ELSE LET r == roundPercent(load, 4 * cpuCount)
         IN  Num(IF r > 100 THEN 100 ELSE r)

\* lines 149, 273
CpuUsage ==
    /\ pc = "usage"
    /\ loc' = [loc EXCEPT !.cpuUsagePercent = cpuUsage(loc.loadAvg[1], loc.cpuCount)]
    /\ pc' = "temp"
    /\ UNCHANGED <<variant, os, fs, cpuinfo, helper, reads, response>>

\* lines 151, 275
Temperature ==
    /\ pc = "temp"
    /\ LET r == getCpuTemperature(fs)
       IN  /\ reads' = reads \o r.reads
           /\ IF r.threw
              THEN Reject /\ UNCHANGED loc
              ELSE /\ loc' = [loc EXCEPT !.cpuTemp = r.value]
                   /\ pc' = "battery"
                   /\ UNCHANGED response
    /\ UNCHANGED <<variant, os, fs, cpuinfo, helper>>

\* lines 152, 276
Battery ==
    /\ pc = "battery"
    /\ LET r == IF variant = 1 THEN getBatteryInfo(helper, fs) ELSE getBatteryInfo2(fs)
       IN  /\ reads' = reads \o r.reads
           /\ IF r.threw
              THEN Reject /\ UNCHANGED loc
              ELSE /\ loc' = [loc EXCEPT !.battery = [level |-> r.level,
                                                      charging |-> r.charging]]
                   /\ pc' = "assemble"
                   /\ UNCHANGED response
    /\ UNCHANGED <<variant, os, fs, cpuinfo, helper>>

\* the object literal of lines 154-180, 278-304
buildStats(l, o) ==
    Obj([device |-> Obj([name |-> Str("Pixel 7"),
                         platform |-> Str(o.platform),
                         arch |-> Str(o.arch),
                         hostname |-> Str(o.hostname)]),
         memory |-> Obj([total |-> Str(formatBytes(l.totalMem)),
                         used |-> Str(formatBytes(l.usedMem)),
                         free |-> Str(formatBytes(l.freeMem)),
                         usagePercent |-> l.memUsagePercent]),
         cpu |-> Obj([model |-> Str(l.cpuModel),
                      cores |-> Num(l.cpuCount),
                      usagePercent |-> l.cpuUsagePercent,
                      loadAvg |-> Arr([i \in DOMAIN l.loadAvg |->
                                          Str(loadToFixed2(l.loadAvg[i]))]),
                      temperature |-> l.cpuTemp]),
         system |-> Obj([uptime |-> Str(formatUptime(l.uptime)),
                         uptimeSeconds |-> Num(l.uptime \div 1000)]),
         battery |-> Obj([level |-> l.battery.level,
                          charging |-> l.battery.charging]),
         timestamp |-> Str(o.now)])

Assemble ==
    /\ pc = "assemble"
    /\ loc' = [loc EXCEPT !.stats = buildStats(loc, os)]
    /\ pc' = "respond"
    /\ UNCHANGED <<variant, os, fs, cpuinfo, helper, reads, response>>

responseHeaders ==
    [ContentType |-> "application/json",
     CacheControl |-> "no-cache, no-store, must-revalidate"]

\* lines 182-188, 306-312
Respond ==
    /\ pc = "respond"
    /\ response' = [status |-> 200, headers |-> responseHeaders,
                    body |-> toJSON(loc.stats)]
    /\ pc' = "done"
    /\ UNCHANGED <<variant, os, fs, cpuinfo, helper, loc, reads>>

Next ==
    \/ ReadMemory
    \/ ReadLoadAndUptime
    \/ CpuIdentity
    \/ CpuUsage
    \/ Temperature
    \/ Battery
    \/ Assemble
    \/ Respond

---------------------------------------------------------------------------
(* Environments of a request.                                              *)

MaxMemUnits == 40       \* total memory, in MiB
MaxLoadQuarters == 24   \* 1-minute load average, in quarters
MaxCpus == 2            \* length of os.cpus()
MaxProcessors == 4      \* processor lines of /proc/cpuinfo
MaxDays == 2            \* whole days of uptime
MaxQuarterGiB == 6      \* total memory, in quarters of a GiB

Unreadable == [ok |-> FALSE, text |-> <<>>]
Readable(text) == [ok |-> TRUE, text |-> text]

ThermalTexts ==
    {<<"4", "5", "0", "0", "0", "\n">>, <<"4", "5", "\n">>, <<"1", "0", "0", "0", "\n">>, <<"1", "0", "0", "1", "\n">>,
     <<"-", "3", "\n">>, <<"N", "/", "A", "\n">>, <<>>}
CapacityTexts ==
    {<<"8", "0", "\n">>, <<"N", "/", "A", "\n">>, <<>>}
StatusTexts ==
    {<<"C", "h", "a", "r", "g", "i", "n", "g", "\n">>, <<"F", "u", "l", "l", "\n">>,
     <<"N", "o", "t", " ", "c", "h", "a", "r", "g", "i", "n", "g", "\n">>,
     <<"F", "U", "L", "L">>}

FilesOver(paths, texts) ==
    [{paths[i] : i \in DOMAIN paths} -> {Unreadable} \cup {Readable(t) : t \in texts}]

\* no thermal zone and no battery subsystem: a server
NoThermal == [p \in {thermalPaths[i] : i \in DOMAIN thermalPaths} |-> Unreadable]
NoCapacity == [p \in {batteryPaths[i] : i \in DOMAIN batteryPaths} |-> Unreadable]
NoStatus == [p \in {statusPaths[i] : i \in DOMAIN statusPaths} |-> Unreadable]

NoHelper ==
    [installed |-> FALSE, durationMs |-> 0, output |-> "malformed",
     percentage |-> Undefined, level |-> Undefined, status |-> Undefined]
HungHelper == [NoHelper EXCEPT !.installed = TRUE, !.durationMs = 5000]
HelperPrints(output) ==
    [NoHelper EXCEPT !.installed = TRUE, !.durationMs = 200, !.output = output]
HelperObject(percentage, level, status) ==
    [installed |-> TRUE, durationMs |-> 200, output |-> "object",
     percentage |-> percentage, level |-> level, status |-> status]

FailingHelpers == {NoHelper, HungHelper, HelperPrints("malformed"), HelperPrints("null")}
HelperObjects ==
    {HelperObject(p, l, st) :
        p \in {Undefined, Null, Num(80), Str("80")},
        l \in {Undefined, Num(50)},
        st \in {Undefined, Str("CHARGING"), Str("FULL"), Str("DISCHARGING")}}
Helpers == FailingHelpers \cup {HelperPrints("scalar")} \cup HelperObjects

CpuDescriptors(n) == [i \in 1..n |-> [model |-> "Cortex-A55"]]
ProcessorLines(n) == [i \in 1..n |-> [key |-> "processor", value |-> ToString(i - 1)]]

NoCpuInfo == [ok |-> FALSE, lines |-> <<>>]
CpuInfos ==
    {NoCpuInfo}
    \cup {[ok |-> TRUE, lines |-> ProcessorLines(n) \o extra] :
            n \in 0..MaxProcessors,
            extra \in {<<>>,
                       <<[key |-> "Hardware", value |-> "Tensor"]>>,
                       <<[key |-> "model name", value |-> "ARMv8"],
                         [key |-> "BogoMIPS", value |-> "49.15"]>>}}

Uptimes ==
    {d * 86400000 + h * 3600000 + m * 60000 + r :
        d \in 0..MaxDays, h \in {0, 1, 23}, m \in {0, 1, 2, 59}, r \in {0, 5000, 59999}}

OS(total, free, load, ncpus, up) ==
    [totalmem |-> total, freemem |-> free,
     loadavg |-> <<load, 2, 1>>, cpus |-> CpuDescriptors(ncpus),
     processUptime |-> up, hostUptime |-> up + 3600000,
     platform |-> "android", arch |-> "arm64", hostname |-> "localhost",
     now |-> "2024-01-05T00:00:00.000Z"]

DefaultOS == OS(40 * MiB, 17 * MiB, 2, 1, 125000)

InitWith(variants, oss, infos, thermals, capacities, statuses, helpers) ==
    /\ variant \in variants
    /\ os \in oss
    /\ cpuinfo \in infos
    /\ fs \in {th @@ ca @@ st : th \in thermals, ca \in capacities, st \in statuses}
    /\ helper \in (IF variant = 1 THEN helpers ELSE {NoHelper})
    /\ pc = "start"
    /\ loc = InitLoc
    /\ reads = <<>>
    /\ response = NoResponse

---------------------------------------------------------------------------
(* Specifications: the same handler under different sets of environments.  *)

\* every optional sensor present, absent or unusable, in both variants
Init ==
    InitWith({1, 2},
             {OS(40 * MiB, 17 * MiB, load, n, 125000) : load \in {0, 6}, n \in 0..1},
             {NoCpuInfo,
              [ok |-> TRUE, lines |-> <<>>],
              [ok |-> TRUE, lines |-> ProcessorLines(2)
                                       \o <<[key |-> "Hardware", value |-> "Tensor"]>>]},
             FilesOver(thermalPaths, {<<"4", "5", "0", "0", "0", "\n">>, <<>>}),
             FilesOver(batteryPaths, {<<"8", "0", "\n">>, <<>>}),
             FilesOver(statusPaths, {<<"C", "h", "a", "r", "g", "i", "n", "g", "\n">>}),
             FailingHelpers \cup {HelperPrints("scalar")}
             \cup {HelperObject(p, Undefined, st) :
                     p \in {Undefined, Num(80)}, st \in {Undefined, Str("CHARGING")}})

Spec == Init /\ [][Next]_vars

\* memory totals and free amounts, in whole MiB
InitMem ==
    InitWith({1, 2},
             UNION {{OS(t * MiB, f * MiB, 2, 1, 125000) : f \in 0..t} :
                       t \in 1..MaxMemUnits},
             {NoCpuInfo}, {NoThermal}, {NoCapacity}, {NoStatus}, {NoHelper})

SpecMem == InitMem /\ [][Next]_vars

\* core-count sources and load averages
InitCpu ==
    InitWith({1, 2},
             {OS(40 * MiB, 17 * MiB, load, n, 125000) :
                 load \in (0..MaxLoadQuarters) \cup {200}, n \in 0..MaxCpus},
             CpuInfos, {NoThermal}, {NoCapacity}, {NoStatus}, {NoHelper})

SpecCpu == InitCpu /\ [][Next]_vars

\* thermal-zone files
InitTemp ==
    InitWith({1, 2}, {DefaultOS}, {NoCpuInfo},
             FilesOver(thermalPaths, ThermalTexts), {NoCapacity}, {NoStatus}, {NoHelper})

SpecTemp == InitTemp /\ [][Next]_vars

\* battery helper outcomes and battery files
InitBattery ==
    InitWith({1, 2}, {DefaultOS}, {NoCpuInfo}, {NoThermal},
             FilesOver(batteryPaths, CapacityTexts),
             FilesOver(statusPaths, StatusTexts), Helpers)

SpecBattery == InitBattery /\ [][Next]_vars

\* uptimes
InitUptime ==
    InitWith({1, 2}, {OS(40 * MiB, 17 * MiB, 2, 1, up) : up \in Uptimes},
             {NoCpuInfo}, {NoThermal}, {NoCapacity}, {NoStatus}, {NoHelper})

SpecUptime == InitUptime /\ [][Next]_vars

\* byte counts around the unit boundary, around the rounding ties of both
\* forms, and across the range
ByteCounts ==
    {0, 1, 2^19 - 1, 2^19, MiB - 1, MiB, MiB + 2^19 - 1, MiB + 2^19,
     GiB - 2^19 - 1, GiB - 2^19, GiB - 1, GiB, GiB + 1,
     GiB + 5368709, GiB + 5368710, GiB + 2^29}
    \cup {q * 2^28 + 3 * 2^18 : q \in 0..MaxQuarterGiB}

InitBytes ==
    InitWith({1, 2},
             UNION {{OS(t, f, 2, 1, 125000) : f \in {b \in ByteCounts : b <= t}} :
                       t \in ByteCounts \ {0}},
             {NoCpuInfo}, {NoThermal}, {NoCapacity}, {NoStatus}, {NoHelper})

SpecBytes == InitBytes /\ [][Next]_vars

---------------------------------------------------------------------------
(* Properties.                                                             *)

AfterBattery == pc \in {"assemble", "respond"} \/ (pc = "done" /\ response.status = 200)
AllUnreadable(paths) == \A i \in DOMAIN paths : ~fs[paths[i]].ok
TopLevelKeys == {"device", "memory", "cpu", "system", "battery", "timestamp"}

\* C1: whatever the optional sensors do (helper absent, hung or printing
\* anything; each thermal and battery file readable or not; /proc/cpuinfo
\* readable or not), a request that has run to its end has answered 200
\* with a body holding the six top-level keys.
C1_Always200WithAllKeys ==
    pc = "done" =>
        /\ response.status = 200
        /\ response.body.t = "object"
        /\ TopLevelKeys \subseteq DOMAIN response.body.o

\* a request answered on a host with no helper, no thermal zone, no battery
\* files and no /proc/cpuinfo
C1_Witness ==
    /\ pc = "done"
    /\ response.status = 200
    /\ variant = 1
    /\ ~helper.installed
    /\ ~cpuinfo.ok
    /\ AllUnreadable(thermalPaths)
    /\ AllUnreadable(batteryPaths)
    /\ AllUnreadable(statusPaths)

OrNull(v, ok) == v.t = "null" \/ ok

HasFields(v, keys) == v.t = "object" /\ DOMAIN v.o = keys

\* C2: every emitted snapshot holds every schema field, each with a value of
\* its declared type or null (battery.level an integer or null,
\* battery.charging a boolean or null), whatever the helper printed and
\* whatever the files hold.
C2_SchemaNeverVaries ==
    (pc = "done" /\ response.status = 200) =>
        LET b == response.body IN
        /\ HasFields(b, TopLevelKeys)
        /\ HasFields(b.o.device, {"name", "platform", "arch", "hostname"})
        /\ \A k \in {"name", "platform", "arch", "hostname"} : IsString(b.o.device.o[k])
        /\ HasFields(b.o.memory, {"total", "used", "free", "usagePercent"})
        /\ \A k \in {"total", "used", "free"} : IsString(b.o.memory.o[k])
        /\ OrNull(b.o.memory.o.usagePercent, IsInteger(b.o.memory.o.usagePercent))
        /\ HasFields(b.o.cpu, {"model", "cores", "usagePercent", "loadAvg", "temperature"})
        /\ IsString(b.o.cpu.o.model)
        /\ IsInteger(b.o.cpu.o.cores)
        /\ OrNull(b.o.cpu.o.usagePercent, IsInteger(b.o.cpu.o.usagePercent))
        /\ b.o.cpu.o.loadAvg.t = "array"
        /\ DOMAIN b.o.cpu.o.loadAvg.o = 1..3
        /\ \A i \in 1..3 : IsString(b.o.cpu.o.loadAvg.o[i])
        /\ OrNull(b.o.cpu.o.temperature, IsFinite(b.o.cpu.o.temperature))
        /\ HasFields(b.o.system, {"uptime", "uptimeSeconds"})
        /\ IsString(b.o.system.o.uptime)
        /\ IsInteger(b.o.system.o.uptimeSeconds)
        /\ HasFields(b.o.battery, {"level", "charging"})
        /\ OrNull(b.o.battery.o.level, IsInteger(b.o.battery.o.level))
        /\ OrNull(b.o.battery.o.charging, IsBoolean(b.o.battery.o.charging))
        /\ IsString(b.o.timestamp)

\* the helper step yields nothing usable: binary missing, timeout passed, or
\* output that is not JSON
HelperFailed ==
    ~helper.installed \/ helper.durationMs > HelperTimeoutMs \/ helper.output = "malformed"

FirstReadable(paths) ==
    IF \E i \in DOMAIN paths : fs[paths[i]].ok
    THEN CHOOSE i \in DOMAIN paths : fs[paths[i]].ok /\ \A j \in 1..(i - 1) : ~fs[paths[j]].ok
    ELSE Len(paths)

\* the candidates in listed order, up to the first readable one
WalkOf(paths) == SubSeq(paths, 1, FirstReadable(paths))

BatteryFileReads ==
    SelectSeq(reads, LAMBDA p : \E i \in 1..2 : p = batteryPaths[i] \/ p = statusPaths[i])

\* C3: in getBatteryInfo (variant 1), when the helper is missing, times out
\* or prints malformed output, the probe reads the capacity candidates and
\* then the status candidates in listed order, and the helper's failure
\* never reaches the caller.
C3_HelperFailureFallsBackToFiles ==
    (variant = 1 /\ HelperFailed /\ pc \in {"assemble", "respond", "done"}) =>
        /\ response.status # 500
        /\ BatteryFileReads = WalkOf(batteryPaths) \o WalkOf(statusPaths)

\* the helper timed out, the first capacity path is absent and the second
\* holds the level that is reported
C3_Witness ==
    /\ variant = 1
    /\ pc = "done"
    /\ response.status = 200
    /\ helper.installed
    /\ helper.durationMs > HelperTimeoutMs
    /\ ~fs[batteryPaths[1]].ok
    /\ fs[batteryPaths[2]].ok
    /\ Len(BatteryFileReads) >= 3
    /\ loc.battery.level = Num(80)

\* the strategies of a variant: variant 2 has no helper and one path per field
Candidates(paths) == IF variant = 1 THEN paths ELSE <<paths[1]>>
HelperAnswered ==
    variant = 1 /\ helper.installed /\ helper.durationMs <= HelperTimeoutMs
    /\ helper.output = "object"
LevelObtainable ==
    \/ HelperAnswered /\ (helper.percentage.t = "number" \/ helper.level.t = "number")
    \/ \E i \in DOMAIN Candidates(batteryPaths) :
          /\ fs[batteryPaths[i]].ok
          /\ \A j \in 1..(i - 1) : ~fs[batteryPaths[j]].ok
          /\ parseInt(trim(fs[batteryPaths[i]].text)).t = "number"
ChargingObtainable ==
    \/ HelperAnswered /\ helper.status.t = "string"
    \/ \E i \in DOMAIN Candidates(statusPaths) : fs[statusPaths[i]].ok

\* C4: level and charging state are determined independently: a level
\* obtainable from some strategy with no charging state obtainable from any
\* gives {level: value, charging: null}, and symmetrically.  (A level is
\* obtainable from the files when the first readable candidate holds a
\* number; NaN and undefined are taken as unknown, as the response shows
\* them.)
C4_PartialResultPreserved ==
    AfterBattery =>
        /\ (LevelObtainable /\ ~ChargingObtainable) =>
              (IsFinite(loc.battery.level) /\ toJSON(loc.battery.charging) = Null)
        /\ (ChargingObtainable /\ ~LevelObtainable) =>
              (IsBoolean(loc.battery.charging) /\ toJSON(loc.battery.level) = Null)

HelperUnavailable ==
    variant = 2 \/ ~helper.installed \/ helper.durationMs > HelperTimeoutMs

\* C5: with the helper unavailable and every candidate capacity and status
\* path unreadable, getBatteryInfo returns normally with level = null and
\* charging = null.
C5_NothingAvailableGivesNulls ==
    (/\ pc \in {"assemble", "respond", "done"}
     /\ HelperUnavailable
     /\ AllUnreadable(Candidates(batteryPaths))
     /\ AllUnreadable(Candidates(statusPaths))) =>
        /\ response.status # 500
        /\ loc.battery = [level |-> Null, charging |-> Null]

\* variant 1 returned from the probe with no helper and no battery file
C5_Witness ==
    /\ variant = 1
    /\ pc = "assemble"
    /\ ~helper.installed
    /\ AllUnreadable(batteryPaths)
    /\ AllUnreadable(statusPaths)
    /\ Len(BatteryFileReads) = 4
    /\ loc.battery.level = Null
    /\ loc.battery.charging = Null

AfterUsage == pc \in {"temp", "battery", "assemble", "respond"} \/ (pc = "done" /\ response.status = 200)

\* C6: cpu.usagePercent is an integer in [0,100] for every load average >= 0
\* and every core count the handler can obtain, a core count of 0 included;
\* load 50 on 4 cores gives 100.
C6_CpuUsageIn0To100 ==
    AfterUsage =>
        /\ IsInteger(loc.cpuUsagePercent)
        /\ loc.cpuUsagePercent.n >= 0
        /\ loc.cpuUsagePercent.n <= 100
        /\ (loc.loadAvg[1] = 200 /\ loc.cpuCount = 4) => loc.cpuUsagePercent = Num(100)

ProcessorLineCount ==
    IF cpuinfo.ok
    THEN Cardinality({i \in DOMAIN cpuinfo.lines : cpuinfo.lines[i].key = "processor"})
    ELSE 0

\* C7: the core count is the number of processor lines of /proc/cpuinfo when
\* the file is readable and has one; otherwise the length of the OS
\* descriptor list when that is not empty; otherwise 8; always positive.
C7_CoreCountFallbackChain ==
    AfterUsage =>
        /\ loc.cpuCount > 0
        /\ loc.cpuCount = IF ProcessorLineCount > 0 THEN ProcessorLineCount
                          ELSE IF Len(os.cpus) > 0 THEN Len(os.cpus)
                          ELSE 8

AfterMemory == pc # "start" /\ (pc = "done" => response.status = 200)

\* C8: for total > 0, memory.usagePercent = round(100 * (total - free) / total)
\* and lies in [0,100].  (Memory sizes here are whole MiB.)
C8_MemoryPercentIsRounded ==
    (AfterMemory /\ os.totalmem > 0) =>
        LET t == os.totalmem \div MiB
            u == (os.totalmem - os.freemem) \div MiB
        IN  /\ loc.memUsagePercent = Num((200 * u + t) \div (2 * t))
            /\ loc.memUsagePercent.n >= 0
            /\ loc.memUsagePercent.n <= 100

AfterTemperature == pc \in {"battery", "assemble", "respond"} \/ (pc = "done" /\ response.status = 200)

Usable(path) == fs[path].ok /\ parseInt(trim(fs[path].text)).t = "number"

\* C9: getCpuTemperature returns the reading of the first candidate path, in
\* listed order, that yields a usable reading r (r / 1000 when r > 1000, else
\* r), and null exactly when no candidate does; unusable content does not
\* count as a successful read.  (A NaN result is taken as null here, as the
\* response shows it.)
C9_FirstUsableThermalReading ==
    AfterTemperature =>
        IF \E i \in DOMAIN thermalPaths : Usable(thermalPaths[i])
        THEN LET first == CHOOSE i \in DOMAIN thermalPaths :
                              /\ Usable(thermalPaths[i])
                              /\ \A j \in 1..(i - 1) : ~Usable(thermalPaths[j])
                 r == parseInt(trim(fs[thermalPaths[first]].text)).n
             IN  loc.cpuTemp = IF r > 1000 THEN Ratio(r, 1000) ELSE Num(r)
        ELSE toJSON(loc.cpuTemp) = Null

\* the days, hours (< 24) and minutes (< 60) that leave less than a minute
DaysHoursMinutes(ms) ==
    CHOOSE t \in (0..(MaxDays + 1)) \X (0..23) \X (0..59) :
        LET rest == ms - (t[1] * 86400000 + t[2] * 3600000 + t[3] * 60000)
        IN  rest >= 0 /\ rest < 60000

UptimeText(d, h, m) ==
    CASE d > 0 /\ h > 0 /\ m > 0 -> ToString(d) \o "d " \o ToString(h) \o "h " \o ToString(m) \o "m"
      [] d > 0 /\ h > 0 /\ m = 0 -> ToString(d) \o "d " \o ToString(h) \o "h"
      [] d > 0 /\ h = 0 /\ m > 0 -> ToString(d) \o "d " \o ToString(m) \o "m"
      [] d > 0 /\ h = 0 /\ m = 0 -> ToString(d) \o "d"
      [] d = 0 /\ h > 0 /\ m > 0 -> ToString(h) \o "h " \o ToString(m) \o "m"
      [] d = 0 /\ h > 0 /\ m = 0 -> ToString(h) \o "h"
      [] d = 0 /\ h = 0 /\ m > 0 -> ToString(m) \o "m"
      [] d = 0 /\ h = 0 /\ m = 0 -> "< 1m"

\* C10: formatUptime(s) lists the non-zero ones of days, hours and minutes
\* of s, in that order, single-spaced, with no seconds; "< 1m" exactly when
\* all three are zero (0: "< 1m", 125: "2m", 3725: "1h 2m", 90000: "1d 1h").
C10_UptimeText ==
    (pc = "done" /\ response.status = 200) =>
        LET t == DaysHoursMinutes(loc.uptime)
            text == response.body.o.system.o.uptime.s
        IN  /\ text = UptimeText(t[1], t[2], t[3])
            /\ (text = "< 1m") <=> (loc.uptime < 60000)
            /\ loc.uptime = 0 => text = "< 1m"
            /\ loc.uptime = 125000 => text = "2m"
            /\ loc.uptime = 3725000 => text = "1h 2m"
            /\ loc.uptime = 90000000 => text = "1d 1h"

\* an uptime of 3725 s was reported as "1h 2m"
C10_Witness ==
    /\ pc = "done"
    /\ loc.uptime = 3725000
    /\ response.body.o.system.o.uptime = Str("1h 2m")

\* floor(200 * b / 2^30), b in two halves to stay within 32 bits
HalfHundredthsOfGiB(b) == (25 * (b \div 2^15) + (25 * (b % 2^15)) \div 2^15) \div 2^12

\* b / 2^30 to two decimal places: the h hundredths nearest to it
GBText(b) ==
    {ToString(h \div 100) \o "." \o (IF h % 100 < 10 THEN "0" ELSE "") \o ToString(h % 100) \o " GB" :
        h \in {k \in 0..(100 * (b \div GiB) + 100) :
                  2 * k - 1 <= HalfHundredthsOfGiB(b) /\ HalfHundredthsOfGiB(b) < 2 * k + 1}}

\* b / 2^20 to the nearest whole number
MBText(b) ==
    {ToString(m) \o " MB" :
        m \in {k \in 0..(b \div MiB + 1) : 2 * k - 1 <= b \div 2^19 /\ b \div 2^19 < 2 * k + 1}}

AnyMBText == {ToString(m) \o " MB" : m \in 0..1024}

FormattedAs(text, b) ==
    /\ text \in (IF b >= GiB THEN GBText(b) ELSE MBText(b))
    /\ b = GiB => text = "1.00 GB"
    /\ b = MiB => text = "1 MB"
    /\ b = GiB - 1 => text \in AnyMBText

\* C11: for b >= 0, formatBytes(b) is b / 2^30 to two decimal places followed
\* by " GB" exactly when b >= 2^30, and otherwise b / 2^20 rounded to the
\* nearest whole number followed by " MB"; 2^30 gives "1.00 GB", 2^20 gives
\* "1 MB", and 2^30 - 1 is rendered in MB.
C11_FormatBytesUnits ==
    (pc = "done" /\ response.status = 200) =>
        LET memory == response.body.o.memory.o
        IN  /\ loc.totalMem >= 0 /\ loc.usedMem >= 0 /\ loc.freeMem >= 0
            /\ FormattedAs(memory.total.s, loc.totalMem)
            /\ FormattedAs(memory.used.s, loc.usedMem)
            /\ FormattedAs(memory.free.s, loc.freeMem)

\* 2^30 bytes in total were reported as "1.00 GB", the 2^30 - 1 free ones
\* as "1024 MB"
C11_Witness ==
    /\ pc = "done"
    /\ loc.totalMem = GiB
    /\ loc.freeMem = GiB - 1
    /\ response.body.o.memory.o.total = Str("1.00 GB")
    /\ response.body.o.memory.o.free = Str("1024 MB")

=============================================================================
